---- MODULE Spec2Model ----
(***************************************************************************)
(* Dose-slice rendering of the BNCT planning backend: the heat-map         *)
(* recolouring of mcnp2png.js (generateHeatmapImage, processDoseDataFile)  *)
(* and the request handlers of backend/index.js that list, recolour and    *)
(* return slice images.                                                    *)
(***************************************************************************)
EXTENDS Integers, Sequences, FiniteSets, TLC

VARIABLES
    bitmap,     \* heat map: frame -> the Jimp image as it is now (mutated in place)
    source,     \* heat map: frame -> the image as it was handed in
    mapped,     \* heat map: frames generateHeatmapImage has returned for
    dirs,       \* output directory -> view -> the view folder and its slice files
    rq,         \* request -> the handler's position and local variables
    resp,       \* request -> the response sent (status 0: none yet)
    flat,       \* the .png files of the dosepng folder itself (o2png.py's output)
    plus,       \* the files of the plus folder (doseplus.py's output)
    before,     \* request -> its output directory when its recolouring pass began
    pass,       \* request -> the slices it has rendered: <<view, file>> pairs
    missed,     \* request -> whether a slice of it failed or was skipped
    ui,         \* the data of the Vue component (frontend)
    sess,       \* uploads, C:/i, C:/o/session_info.json and the requests on them
    dvh,        \* the dose volume, the organ masks and the /generate-dvh request
    build,      \* wholebody_phantom, C:/i and the concurrent /build-wholebody-phantom
    pat,        \* Date.now(), the nii_<time> folders, the sessions and their uploads
    wb          \* the files /generate-wholebody-dose-map looks up, and its request

heatVars == <<bitmap, source, mapped>>
renderVars == <<dirs, rq, resp, flat, plus, before, pass, missed>>
otherVars == <<ui, sess, dvh, build, pat, wb>>
vars == <<bitmap, source, mapped, dirs, rq, resp, flat, plus, before, pass, missed,
          ui, sess, dvh, build, pat, wb>>

(***************************************************************************)
(* Bounds                                                                  *)
(***************************************************************************)
MaxPixels == 2      \* most pixels of a sampled image (width * height)
MaxSlices == 2      \* largest extent of a volume along an axis
MaxConcSlices == 1  \* the same, of the volumes of concurrent requests
MaxRequests == 2    \* requests served in one run

(***************************************************************************)
(* generateHeatmapImage                                                    *)
(***************************************************************************)
\* colormapOptions.nshades
nshades == 256

\* The 8-bit channel range of Jimp.intToRGBA
ChannelMax == 255

\* The anchor colours of the 'hot' scale; index is a fraction num/den of the table
HotStops ==
    << [num |-> 0,  den |-> 10, rgb |-> <<0, 0, 0>>],
       [num |-> 3,  den |-> 10, rgb |-> <<230, 0, 0>>],
       [num |-> 6,  den |-> 10, rgb |-> <<255, 210, 0>>],
       [num |-> 10, den |-> 10, rgb |-> <<255, 255, 255>>] >>

\* Math.round of the non-negative fraction a/b
RoundDiv(a, b) == (2 * a + b) \div (2 * b)

\* The table position of stop s: Math.round(index * (nshades - 1))
StopAt(s) == RoundDiv(HotStops[s].num * (nshades - 1), HotStops[s].den)

\* The stop segment table position k (0-based) falls in
SegmentOf(k) == CHOOSE s \in 1..(Len(HotStops) - 1) : StopAt(s) <= k /\ k < StopAt(s + 1)

\* Math.round(lerp(a, b, j / n))
Lerp(a, b, j, n) == RoundDiv(a * n + (b - a) * j, n)

\* Entry k (0-based) of colormap({colormap: 'hot', nshades, format: 'rgba', alpha: 1})
HotEntry(k) ==
    IF k >= StopAt(Len(HotStops))
    THEN HotStops[Len(HotStops)].rgb \o <<1>>
    ELSE LET s == SegmentOf(k)
             n == StopAt(s + 1) - StopAt(s)
             j == k - StopAt(s)
             f == HotStops[s].rgb
             t == HotStops[s + 1].rgb
         IN  <<Lerp(f[1], t[1], j, n), Lerp(f[2], t[2], j, n), Lerp(f[3], t[3], j, n), 1>>

\* const colorMap = colormap(colormapOptions): nshades entries, 1-based here
colorMap == [k \in 1..nshades |-> HotEntry(k - 1)]

\* What an out-of-range array read yields
Undefined == "undefined"

\* Math.floor(value * (colorMap.length - 1)) with value = r / 255, off by one
\* the way "value * colorMap.length" would be
ShadeIndexFullLength(r) == (r * Len(colorMap)) \div ChannelMax

\* Math.floor(value * (colorMap.length - 2)): the last shade is never used
ShadeIndexShort(r) == (r * (Len(colorMap) - 2)) \div ChannelMax

\* Math.floor(value * (colorMap.length - 1)) with value = pixel.r / 255.
\* For every r in 0..255 the IEEE double result equals the exact quotient.
ShadeIndex(r) == (r * (Len(colorMap) - 1)) \div ChannelMax

\* colorMap[i] as JavaScript reads it (0-based)
ShadeAt(i) == IF i \in 0..(Len(colorMap) - 1) THEN colorMap[i + 1] ELSE Undefined

\* The pixels array of an image: row-major, pixels[y * width + x]
PixelsOf(image) ==
    [i \in 0..(image.width * image.height - 1) |->
        image.data[<<i % image.width, i \div image.width>>]]

\* The largest red value of an image
MaxRed(image) ==
    CHOOSE m \in {image.data[p].r : p \in DOMAIN image.data} :
        \A p \in DOMAIN image.data : image.data[p].r <= m

\* The colour written for pixel px: [color[0], color[1], color[2], 255],
\* normalised by the image's own largest red value instead of 255
HeatColorPerFrame(image, px) ==
    LET m == MaxRed(image)
        color == ShadeAt(IF m = 0 THEN 0 ELSE (px.r * (Len(colorMap) - 1)) \div m)
    IN  [r |-> color[1], g |-> color[2], b |-> color[3], a |-> 255]

\* The colour written for pixel px: [color[0], color[1], color[2], 255]
HeatColor(image, px) ==
    LET color == ShadeAt(ShadeIndex(px.r))
    IN  [r |-> color[1], g |-> color[2], b |-> color[3], a |-> 255]

\* Whether some lookup of the second loop reads outside the table (color[0] throws)
HeatmapThrows(image) ==
    \E p \in DOMAIN image.data : ShadeAt(ShadeIndex(image.data[p].r)) = Undefined

\* generateHeatmapImage: the image with every pixel i of the pixels array
\* recoloured and set at (i % width, floor(i / width))
generateHeatmapImage(image) ==
    LET pixels == PixelsOf(image)
    IN  [image EXCEPT !.data =
            [p \in DOMAIN image.data |->
                LET i == CHOOSE j \in DOMAIN pixels :
                             <<j % image.width, j \div image.width>> = p
                IN  HeatColor(image, pixels[i])]]

\* A gray pixel of value v
Gray(v) == [r |-> v, g |-> v, b |-> v, a |-> 255]

\* The pixel positions <<x, y>> of a w by h image
Positions(w, h) == (0..(w - 1)) \X (0..(h - 1))

\* Two frames: what frame independence compares
Frames == {1, 2}

(***************************************************************************)
(* Slice files and view folders                                            *)
(***************************************************************************)
\* const views = ['axial', 'coronal', 'sagittal']
Views == <<"axial", "coronal", "sagittal">>

ViewSet == {Views[i] : i \in 1..Len(Views)}

\* Width the slicing scripts pad a slice index to
PadWidth == 3

\* ".png" as UTF-16 code units
PngExt == <<46, 112, 110, 103>>

\* The decimal digits of i as code units, zero-padded to at least w of them
RECURSIVE Digits(_, _)
Digits(i, w) ==
    IF i < 10
    THEN [k \in 1..(IF w > 1 THEN w - 1 ELSE 0) |-> 48] \o <<48 + i>>
    ELSE Digits(i \div 10, w - 1) \o <<48 + (i % 10)>>

\* parseInt of the leading decimal digits of a file name
RECURSIVE ParseDigits(_, _)
ParseDigits(s, acc) ==
    IF s = <<>> \/ Head(s) \notin 48..57 THEN acc
    ELSE ParseDigits(Tail(s), acc * 10 + (Head(s) - 48))

\* The file name of slice i: "<zero-padded index>.png"
SliceName(i) == Digits(i, PadWidth) \o PngExt

\* a < b for strings, by UTF-16 code units
RECURSIVE StrLess(_, _)
StrLess(a, b) ==
    IF b = <<>> THEN FALSE
    ELSE IF a = <<>> THEN TRUE
    ELSE IF Head(a) # Head(b) THEN Head(a) < Head(b)
    ELSE StrLess(Tail(a), Tail(b))

\* s with x inserted before the first element greater than x
RECURSIVE InsertSorted(_, _)
InsertSorted(x, s) ==
    IF s = <<>> THEN <<x>>
    ELSE IF StrLess(x, Head(s)) THEN <<x>> \o s
    ELSE <<Head(s)>> \o InsertSorted(x, Tail(s))

\* files.sort() left out: the listing as read
SortNone(files) == files

\* files.sort(): ascending by code units
RECURSIVE Sort(_)
Sort(files) == IF files = <<>> THEN <<>> ELSE InsertSorted(Head(files), Sort(Tail(files)))

\* The orders fs.readdir may list the names of S in
Listings(S) ==
    { s \in [1..Cardinality(S) -> S] : \A i, j \in DOMAIN s : i # j => s[i] # s[j] }

NoFiles == [n \in {} |-> 0]

\* A view folder that does not exist
NoFolder == [exists |-> FALSE, files |-> NoFiles]

NoOutput == [v \in ViewSet |-> NoFolder]

\* The image a slicing script renders for a slice: one mid-gray pixel
SliceImage == [width |-> 1, height |-> 1, data |-> [p \in Positions(1, 1) |-> Gray(128)]]

\* Extents of a volume along the three view axes: all zero (empty) or all positive
Shapes(max) == {[v \in ViewSet |-> 0]} \cup [ViewSet -> 1..max]

\* A slicing script's run for request r on a volume of the given shape: one file
\* per slice and view, overwriting files of the same name; mk: whether it
\* creates the folder of a view without slices
RenderSlices(out, r, shape, mk) ==
    [v \in ViewSet |->
        IF shape[v] = 0 /\ ~mk THEN out[v]
        ELSE [exists |-> TRUE,
              files |-> [n \in DOMAIN out[v].files \cup {SliceName(i) : i \in 0..(shape[v] - 1)} |->
                            IF n \in {SliceName(i) : i \in 0..(shape[v] - 1)}
                            THEN [img |-> SliceImage, by |-> r, heatBy |-> <<>>]
                            ELSE out[v].files[n]]]]

(***************************************************************************)
(* Requests                                                                *)
(***************************************************************************)
Reqs == 1..MaxRequests

\* Names of uploaded .npy files (without the extension)
NpyNames == {"dose", "plan"}

\* path.join(DIRS.DOSE_PNG, 'wholebody')
WholebodyDir == <<"dosepng", "wholebody">>

\* path.join(uploadedFolder, 'slices') of the upload folder request r's multer
\* storage created (nii_<Date.now()>)
UploadDir(r) == <<"uploads", r>>

OutDirs == ({"dosepng"} \X NpyNames) \cup {WholebodyDir} \cup {UploadDir(r) : r \in Reqs}

NoResult == [v \in ViewSet |-> <<>>]

NoRequest ==
    [op |-> "none", pc |-> "idle", out |-> <<"dosepng", "dose">>, vi |-> 1,
     files |-> <<>>, fi |-> 1, held |-> <<>>, result |-> NoResult,
     doseFiles |-> <<>>, composite |-> <<>>, ran |-> FALSE, shape |-> [v \in ViewSet |-> 0]]

NoResponse ==
    [status |-> 0, success |-> FALSE, slices |-> NoResult, total |-> 0,
     maxSlices |-> [v \in ViewSet |-> 0], composite |-> <<>>]

RenderIdle ==
    /\ dirs = [d \in OutDirs |-> NoOutput]
    /\ rq = [r \in Reqs |-> NoRequest]
    /\ resp = [r \in Reqs |-> NoResponse]
    /\ flat = {}
    /\ plus = {}
    /\ before = [r \in Reqs |-> NoOutput]
    /\ pass = [r \in Reqs |-> {}]
    /\ missed = [r \in Reqs |-> FALSE]

InFlight(r) == rq[r].pc \notin {"idle", "done"}

\* The request once answered: its locals are gone
Answered(req) ==
    [NoRequest EXCEPT !.op = req.op, !.pc = "done", !.out = req.out,
                      !.ran = req.ran, !.shape = req.shape]

\* res.status(code).json({success: false, ...}) from a return or the catch block
Fail(r, code) ==
    /\ rq' = [rq EXCEPT ![r] = Answered(rq[r])]
    /\ resp' = [resp EXCEPT ![r] = [NoResponse EXCEPT !.status = code]]

(***************************************************************************)
(* POST /process-npy and processDoseDataFile                               *)
(***************************************************************************)
\* The handler up to the call of processDoseDataFile: the uploaded file, the
\* output directory, the reference image (found: a path was resolved; there: it exists)
BeginProcessNpy(r, hasFile, name, found, there) ==
    /\ rq[r].pc = "idle"
    /\ IF ~hasFile THEN Fail(r, 500)
       ELSE IF ~found \/ ~there THEN Fail(r, 400)
       ELSE /\ rq' = [rq EXCEPT ![r] = [NoRequest EXCEPT !.op = "process-npy", !.pc = "resample",
                                                        !.out = <<"dosepng", name>>]]
            /\ UNCHANGED resp
    /\ before' = [before EXCEPT ![r] = dirs[<<"dosepng", name>>]]
    /\ UNCHANGED <<dirs, flat, plus, pass, missed, heatVars, otherVars>>

\* await execAsync(python resample_npy_to_nii.py ...)
RunResample(r) ==
    /\ rq[r].pc = "resample"
    /\ \E ok \in BOOLEAN :
        IF ok THEN rq' = [rq EXCEPT ![r].pc = "preview"] /\ UNCHANGED resp
        ELSE Fail(r, 500)
    /\ UNCHANGED <<dirs, flat, plus, before, pass, missed, heatVars, otherVars>>

\* await execAsync(python nii_preview.py doseNiiPath outputDir)
RunPreview(r, shapes) ==
    /\ rq[r].pc = "preview"
    /\ \E ok \in BOOLEAN, shape \in shapes, mk \in BOOLEAN :
        IF ok
        THEN LET out == RenderSlices(dirs[rq[r].out], r, shape, mk)
             IN  /\ dirs' = [dirs EXCEPT ![rq[r].out] = out]
                 /\ before' = [before EXCEPT ![r] = out]
                 /\ rq' = [rq EXCEPT ![r].pc = "readdir", ![r].vi = 1,
                                      ![r].ran = TRUE, ![r].shape = shape]
                 /\ UNCHANGED resp
        ELSE Fail(r, 500) /\ UNCHANGED <<dirs, before>>
    /\ UNCHANGED <<flat, plus, pass, missed, heatVars, otherVars>>

\* After the last file of view vi: the next view, or return result
AfterView(req) ==
    IF req.vi = Len(Views)
    THEN [req EXCEPT !.pc = "return"]
    ELSE [req EXCEPT !.pc = "readdir", !.vi = req.vi + 1]

\* const files = await fs.readdir(viewFolder); result[view] = []
ReadViewFolder(r) ==
    /\ rq[r].pc = "readdir"
    /\ LET folder == dirs[rq[r].out][Views[rq[r].vi]]
       IN  IF ~folder.exists THEN Fail(r, 500)
           ELSE /\ \E files \in Listings(DOMAIN folder.files) :
                     rq' = [rq EXCEPT ![r] =
                               IF Len(files) = 0 THEN AfterView(rq[r])
                               ELSE [rq[r] EXCEPT !.pc = "read", !.files = files, !.fi = 1]]
                /\ UNCHANGED resp
    /\ UNCHANGED <<dirs, flat, plus, before, pass, missed, heatVars, otherVars>>

\* const image = await Jimp.read(filePath)
ReadSlice(r) ==
    /\ rq[r].pc = "read"
    /\ LET folder == dirs[rq[r].out][Views[rq[r].vi]]
           file == rq[r].files[rq[r].fi]
       IN  \E ok \in BOOLEAN :
             IF ok /\ file \in DOMAIN folder.files
             THEN /\ rq' = [rq EXCEPT ![r].pc = "write", ![r].held = <<folder.files[file]>>]
                  /\ UNCHANGED <<resp, missed>>
             ELSE Fail(r, 500) /\ missed' = [missed EXCEPT ![r] = TRUE]
    /\ UNCHANGED <<dirs, flat, plus, before, pass, heatVars, otherVars>>

\* The path the recoloured image is written to, were it a new file beside the original
HeatPathBeside(file) == <<104>> \o file

\* The path the recoloured image is written to: filePath, the file it was read from
HeatPath(file) == file

\* heatmapImage = await generateHeatmapImage(image);
\* await heatmapImage.writeAsync(filePath); result[view].push(filePath)
WriteSlice(r) ==
    /\ rq[r].pc = "write"
    /\ LET view == Views[rq[r].vi]
           file == rq[r].files[rq[r].fi]
           held == rq[r].held[1]
           heat == [img |-> generateHeatmapImage(held.img), by |-> held.by,
                    heatBy |-> Append(held.heatBy, r)]
           folder == dirs[rq[r].out][view]
           req == [rq[r] EXCEPT !.held = <<>>,
                                !.result[view] = Append(@, <<rq[r].out, view, file>>),
                                !.fi = @ + 1]
       IN  \E ok \in BOOLEAN :
             IF ok /\ ~HeatmapThrows(held.img)
             THEN /\ dirs' = [dirs EXCEPT ![rq[r].out][view] =
                                [exists |-> TRUE,
                                 files |-> [n \in DOMAIN folder.files \cup {HeatPath(file)} |->
                                               IF n = HeatPath(file) THEN heat ELSE folder.files[n]]]]
                  /\ pass' = [pass EXCEPT ![r] = @ \cup {<<view, file>>}]
                  /\ rq' = [rq EXCEPT ![r] =
                               IF rq[r].fi = Len(rq[r].files) THEN AfterView(req) ELSE [req EXCEPT !.pc = "read"]]
                  /\ UNCHANGED <<resp, missed>>
             ELSE /\ Fail(r, 500)
                  /\ missed' = [missed EXCEPT ![r] = TRUE]
                  /\ UNCHANGED <<dirs, pass>>
    /\ UNCHANGED <<flat, plus, before, heatVars, otherVars>>

\* `/dosepng/${baseName}/${view}/${path.basename(image)}`
DoseUrl(path) == <<"/dosepng", path[1][2], path[2], path[3]>>

\* if (totalImages === 0) dropped: nothing counts as nothing generated
NothingGeneratedNever(totalImages) == FALSE

\* if (totalImages === 0) throw new Error('未生成任何剂量图像')
NothingGenerated(totalImages) == totalImages = 0

\* The rest of the handler once processDoseDataFile has returned doseImages
ReturnProcessNpy(r) ==
    /\ rq[r].pc = "return"
    /\ rq[r].op = "process-npy"
    /\ LET doseImages == rq[r].result
           totalImages == Len(doseImages["axial"]) + Len(doseImages["coronal"])
                          + Len(doseImages["sagittal"])
       IN  IF NothingGenerated(totalImages) THEN Fail(r, 500)
           ELSE /\ rq' = [rq EXCEPT ![r] = Answered(rq[r])]
                /\ resp' = [resp EXCEPT ![r] =
                              [NoResponse EXCEPT
                                  !.status = 200, !.success = TRUE, !.total = totalImages,
                                  !.slices = [v \in ViewSet |->
                                                [i \in 1..Len(doseImages[v]) |-> DoseUrl(doseImages[v][i])]]]]
    /\ UNCHANGED <<dirs, flat, plus, before, pass, missed, heatVars, otherVars>>

ProcessNpyStep(r, shapes) ==
    \/ RunResample(r)
    \/ RunPreview(r, shapes)
    \/ ReadViewFolder(r)
    \/ ReadSlice(r)
    \/ WriteSlice(r)
    \/ ReturnProcessNpy(r)

(***************************************************************************)
(* POST /upload-nii                                                        *)
(***************************************************************************)
\* `/uploads/${req.uploadFolder}/slices/${view}/${file}`
UploadUrl(r, view, file) == <<"/uploads", r, view, file>>

\* uploadNii.single('niiFile'): the file filter, and the storage's new folder
BeginUploadNii(r, accepted) ==
    /\ rq[r].pc = "idle"
    /\ IF ~accepted THEN Fail(r, 500)
       ELSE /\ rq' = [rq EXCEPT ![r] = [NoRequest EXCEPT !.op = "upload-nii", !.pc = "uncompress",
                                                        !.out = UploadDir(r)]]
            /\ UNCHANGED resp
    /\ UNCHANGED <<dirs, flat, plus, before, pass, missed, heatVars, otherVars>>

\* await compressing.gzip.uncompress(gzPath, niiPath); the .nii must exist
Uncompress(r) ==
    /\ rq[r].pc = "uncompress"
    /\ \E ok \in BOOLEAN :
        IF ok THEN rq' = [rq EXCEPT ![r].pc = "nii_to_npy"] /\ UNCHANGED resp
        ELSE Fail(r, 500)
    /\ UNCHANGED <<dirs, flat, plus, before, pass, missed, heatVars, otherVars>>

\* await execAsync(nii_to_npy.py niiPath npyPath); the .npy must exist
ConvertNpy(r) ==
    /\ rq[r].pc = "nii_to_npy"
    /\ \E ok \in BOOLEAN :
        IF ok THEN rq' = [rq EXCEPT ![r].pc = "nii_preview"] /\ UNCHANGED resp
        ELSE Fail(r, 500)
    /\ UNCHANGED <<dirs, flat, plus, before, pass, missed, heatVars, otherVars>>

\* await execAsync(`python nii_preview.py "${niiPath}" "${outputDir}"`)
PreviewNii(r, shapes) ==
    /\ rq[r].pc = "nii_preview"
    /\ \E ok \in BOOLEAN, shape \in shapes, mk \in BOOLEAN :
        IF ok
        THEN /\ dirs' = [dirs EXCEPT ![rq[r].out] = RenderSlices(@, r, shape, mk)]
             /\ rq' = [rq EXCEPT ![r].pc = "list", ![r].vi = 1,
                                  ![r].ran = TRUE, ![r].shape = shape]
             /\ UNCHANGED resp
        ELSE Fail(r, 500) /\ UNCHANGED dirs
    /\ UNCHANGED <<flat, plus, before, pass, missed, heatVars, otherVars>>

\* One round of the views loop: files = await fs.readdir(viewDir);
\* result[view] = files.sort().map(...); after the last view, res.json
ListUploadView(r) ==
    /\ rq[r].pc = "list"
    /\ rq[r].op = "upload-nii"
    /\ LET view == Views[rq[r].vi]
           folder == dirs[rq[r].out][view]
       IN  IF ~folder.exists THEN Fail(r, 500)
           ELSE \E files \in Listings(DOMAIN folder.files) :
                  LET sorted == Sort(files)
                      result == [rq[r].result EXCEPT
                                    ![view] = [i \in 1..Len(sorted) |-> UploadUrl(r, view, sorted[i])]]
                  IN  IF rq[r].vi < Len(Views)
                      THEN /\ rq' = [rq EXCEPT ![r].vi = @ + 1, ![r].result = result]
                           /\ UNCHANGED resp
                      ELSE /\ rq' = [rq EXCEPT ![r] = Answered(rq[r])]
                           /\ resp' = [resp EXCEPT ![r] =
                                  [NoResponse EXCEPT !.status = 200, !.success = TRUE,
                                                     !.slices = result,
                                                     !.maxSlices = [v \in ViewSet |-> Len(result[v])]]]
    /\ UNCHANGED <<dirs, flat, plus, before, pass, missed, heatVars, otherVars>>

UploadNiiStep(r, shapes) ==
    \/ Uncompress(r)
    \/ ConvertNpy(r)
    \/ PreviewNii(r, shapes)
    \/ ListUploadView(r)

(***************************************************************************)
(* POST /generate-wholebody-dose-map                                       *)
(***************************************************************************)
\* `/dosepng/wholebody/${view}/${file}`
WholebodyUrl(view, file) == <<"/dosepng", "wholebody", view, file>>

\* Steps 1 and 2: the dose file and the reference image are looked up
BeginWholebody(r, doseFound, refFound) ==
    /\ rq[r].pc = "idle"
    /\ IF ~doseFound \/ ~refFound THEN Fail(r, 500)
       ELSE /\ rq' = [rq EXCEPT ![r] = [NoRequest EXCEPT !.op = "wholebody", !.pc = "dose_to_png",
                                                        !.out = WholebodyDir]]
            /\ UNCHANGED resp
    /\ UNCHANGED <<dirs, flat, plus, before, pass, missed, heatVars, otherVars>>

\* Step 3: await execAsync(dose_to_png.py doseNpyPath outputDir refNiiPath)
RunDoseToPng(r, shapes) ==
    /\ rq[r].pc = "dose_to_png"
    /\ \E ok \in BOOLEAN, shape \in shapes, mk \in BOOLEAN :
        IF ok
        THEN /\ dirs' = [dirs EXCEPT ![rq[r].out] = RenderSlices(@, r, shape, mk)]
             /\ rq' = [rq EXCEPT ![r].pc = "list", ![r].vi = 1,
                                  ![r].ran = TRUE, ![r].shape = shape]
             /\ UNCHANGED resp
        ELSE Fail(r, 500) /\ UNCHANGED dirs
    /\ UNCHANGED <<flat, plus, before, pass, missed, heatVars, otherVars>>

\* Step 4, one round of the views loop, and after the last view the check of
\* totalSlices and res.json
ListWholebodyView(r) ==
    /\ rq[r].pc = "list"
    /\ rq[r].op = "wholebody"
    /\ LET view == Views[rq[r].vi]
           folder == dirs[rq[r].out][view]
       IN  \E files \in Listings(IF folder.exists THEN DOMAIN folder.files ELSE {}) :
             LET sorted == Sort(files)
                 result == IF folder.exists /\ Len(files) > 0
                           THEN [rq[r].result EXCEPT
                                    ![view] = [i \in 1..Len(sorted) |-> WholebodyUrl(view, sorted[i])]]
                           ELSE rq[r].result
                 totalSlices == Len(result["axial"]) + Len(result["coronal"]) + Len(result["sagittal"])
             IN  IF rq[r].vi < Len(Views)
                 THEN /\ rq' = [rq EXCEPT ![r].vi = @ + 1, ![r].result = result]
                      /\ UNCHANGED resp
                 ELSE IF totalSlices = 0 THEN Fail(r, 500)
                 ELSE /\ rq' = [rq EXCEPT ![r] = Answered(rq[r])]
                      /\ resp' = [resp EXCEPT ![r] =
                             [NoResponse EXCEPT !.status = 200, !.success = TRUE,
                                                !.slices = result, !.total = totalSlices]]
    /\ UNCHANGED <<dirs, flat, plus, before, pass, missed, heatVars, otherVars>>

WholebodyStep(r, shapes) ==
    \/ RunDoseToPng(r, shapes)
    \/ ListWholebodyView(r)

(***************************************************************************)
(* POST /generate-dose-map                                                 *)
(***************************************************************************)
\* `/plus/${axialFiles[i]}`
PlusUrl(file) == <<"/plus", file>>

\* Up to o2png.py: axialImagePath names the axial folder of upload q (given), the
\* folder must exist and hold .png files
BeginDoseMap(r, given, q) ==
    /\ rq[r].pc = "idle"
    /\ LET folder == dirs[UploadDir(q)]["axial"]
       IN  IF ~given \/ ~folder.exists \/ DOMAIN folder.files = {} THEN Fail(r, 500)
           ELSE /\ \E axialFiles \in Listings(DOMAIN folder.files) :
                     rq' = [rq EXCEPT ![r] = [NoRequest EXCEPT !.op = "dose-map", !.pc = "o2png",
                                                              !.out = UploadDir(q),
                                                              !.files = axialFiles]]
                /\ UNCHANGED resp
    /\ UNCHANGED <<dirs, flat, plus, before, pass, missed, heatVars, otherVars>>

\* Step 1: await execAsync(o2png.py "C:/o" doseOutputDir): n dose images
RunO2png(r) ==
    /\ rq[r].pc = "o2png"
    /\ \E ok \in BOOLEAN, n \in 0..MaxSlices :
        IF ok
        THEN /\ flat' = flat \cup {SliceName(i) : i \in 0..(n - 1)}
             /\ rq' = [rq EXCEPT ![r].pc = "listdose"]
             /\ UNCHANGED resp
        ELSE Fail(r, 500) /\ UNCHANGED flat
    /\ UNCHANGED <<dirs, plus, before, pass, missed, heatVars, otherVars>>

\* const doseFiles = (await fs.readdir(doseOutputDir)).filter(f => f.endsWith('.png'))
ListDose(r) ==
    /\ rq[r].pc = "listdose"
    /\ IF flat = {} THEN Fail(r, 500)
       ELSE /\ \E doseFiles \in Listings(flat) :
                 rq' = [rq EXCEPT ![r].pc = "composite", ![r].doseFiles = doseFiles, ![r].fi = 1]
            /\ UNCHANGED resp
    /\ UNCHANGED <<dirs, flat, plus, before, pass, missed, heatVars, otherVars>>

\* i < axialFiles.length && i < doseFiles.length, i being fi - 1
InLoop(req, fi) == fi <= Len(req.files) /\ fi <= Len(req.doseFiles)

\* One round of the compositing loop and, when the loop ends with it, res.json.
\* outcome: what doseplus.py did (threw, wrote the output image, wrote nothing)
CompositeSlice(r) ==
    /\ rq[r].pc = "composite"
    /\ InLoop(rq[r], rq[r].fi)
    /\ LET file == rq[r].files[rq[r].fi]
           originalExists == file \in DOMAIN dirs[rq[r].out]["axial"].files
           doseExists == rq[r].doseFiles[rq[r].fi] \in flat
           left == Len(rq[r].files) > Len(rq[r].doseFiles)
       IN  \E outcome \in {"throws", "written", "nothing"} :
             LET skip == ~originalExists \/ ~doseExists
                 outputExists == ~skip /\ (outcome = "written" \/ file \in plus)
                 paths == IF outputExists THEN Append(rq[r].composite, PlusUrl(file))
                          ELSE rq[r].composite
             IN  IF ~skip /\ outcome = "throws"
                 THEN /\ Fail(r, 500)
                      /\ missed' = [missed EXCEPT ![r] = TRUE]
                      /\ UNCHANGED <<plus, pass>>
                 ELSE /\ plus' = IF ~skip /\ outcome = "written" THEN plus \cup {file} ELSE plus
                      /\ pass' = IF ~skip /\ outcome = "written"
                                 THEN [pass EXCEPT ![r] = @ \cup {<<"axial", file>>}] ELSE pass
                      /\ IF InLoop(rq[r], rq[r].fi + 1)
                         THEN /\ rq' = [rq EXCEPT ![r].fi = @ + 1, ![r].composite = paths]
                              /\ missed' = [missed EXCEPT ![r] = @ \/ skip \/ outcome = "nothing"]
                              /\ UNCHANGED resp
                         ELSE /\ rq' = [rq EXCEPT ![r] = Answered(rq[r])]
                              /\ missed' = [missed EXCEPT ![r] = @ \/ skip \/ outcome = "nothing" \/ left]
                              /\ resp' = [resp EXCEPT ![r] =
                                     [NoResponse EXCEPT !.status = 200, !.success = TRUE,
                                                        !.composite = paths]]
    /\ UNCHANGED <<dirs, flat, before, heatVars, otherVars>>

DoseMapStep(r) ==
    \/ RunO2png(r)
    \/ ListDose(r)
    \/ CompositeSlice(r)

(***************************************************************************)
(* The frontend: the data and the methods of the Vue component             *)
(***************************************************************************)
\* Requests of one kind the component may have in flight at once
MaxPending == 1

\* The methods that await one backend request
UiOps == {"upload-nii", "build", "run", "dosemap", "process-npy", "dvh"}

\* The indices of mcnpSteps
StepIds == 0..2

\* colormapOptions.colormap: the scale processDoseDataFile recolours with
RenderColormap == "hot"

\* The scale of the slices /generate-wholebody-dose-map returns (dose_to_png.py)
WholebodyColormap == "jet"

\* data(): the component as created; mounted() binds the three step actions
UiIdle ==
    ui = [loading |-> FALSE,
          currentStep |-> -1,
          mcnpSteps |-> [i \in StepIds |-> [status |-> "pending", disabled |-> i # 0]],
          niiPath |-> "",
          hasDoseData |-> FALSE,
          doseColormap |-> "jet",
          doseSlices |-> "",        \* the scale the displayed dose slices were rendered with
          organFiles |-> 0,
          patientCtFile |-> FALSE,
          risk |-> "idle",          \* runRiskAssessment: idle, awaiting, timer
          pending |-> [op \in UiOps |-> 0],
          succeeded |-> {}]         \* the steps whose action has succeeded so far

\* The methods leave everything but the component alone
UiOnly == UNCHANGED <<heatVars, renderVars, sess, dvh, build, pat, wb>>

Send(u, op) == [u EXCEPT !.pending[op] = @ + 1]
Receive(u, op) == [u EXCEPT !.pending[op] = @ - 1]

\* handleNiiUpload up to the await; the file input is bound with @change only
HandleNiiUpload ==
    /\ ui.pending["upload-nii"] < MaxPending
    /\ ui' = Send([ui EXCEPT !.loading = TRUE], "upload-nii")
    /\ UiOnly

\* handleNiiUpload from the response on: try or catch, then finally
NiiUploadReturns(ok) ==
    /\ ui.pending["upload-nii"] > 0
    /\ ui' = Receive(
                IF ok
                THEN [ui EXCEPT !.niiPath = "nii", !.mcnpSteps[0].disabled = FALSE,
                                !.loading = FALSE]
                ELSE [ui EXCEPT !.loading = FALSE],
                "upload-nii")
    /\ UiOnly

\* :disabled="step.disabled || loading", with every button enabled while not loading
StepButtonDisabledByLoading(i) == ui.loading

\* :disabled="step.disabled || loading"
StepButtonDisabled(i) == ui.mcnpSteps[i].disabled \/ ui.loading

\* The start of a step action: loading, currentStep, status 'active', the request
StartStep(i, op) ==
    Send([ui EXCEPT !.loading = TRUE, !.currentStep = i,
                    !.mcnpSteps[i].status = "active"], op)

\* The end of a step action: the finally block
EndStep(u, op) == Receive([u EXCEPT !.loading = FALSE, !.currentStep = -1], op)

\* buildWholeBodyPhantom up to the await
buildWholeBodyPhantom ==
    /\ ~StepButtonDisabled(0)
    /\ IF ui.niiPath = ""
       THEN UNCHANGED ui     \* showMessage only
       ELSE /\ ui.pending["build"] < MaxPending
            /\ ui' = StartStep(0, "build")
    /\ UiOnly

BuildReturns(ok) ==
    /\ ui.pending["build"] > 0
    /\ ui' = EndStep(
                IF ok
                THEN [ui EXCEPT !.mcnpSteps[0].status = "completed",
                                !.mcnpSteps[1].disabled = FALSE,
                                !.succeeded = @ \cup {0}]
                ELSE [ui EXCEPT !.mcnpSteps[0].status = "error"],
                "build")
    /\ UiOnly

\* runMcnpCalculation up to the await
runMcnpCalculation ==
    /\ ~StepButtonDisabled(1)
    /\ ui.pending["run"] < MaxPending
    /\ ui' = StartStep(1, "run")
    /\ UiOnly

RunReturns(ok) ==
    /\ ui.pending["run"] > 0
    /\ ui' = EndStep(
                IF ok
                THEN [ui EXCEPT !.mcnpSteps[1].status = "completed",
                                !.mcnpSteps[2].disabled = FALSE,
                                !.succeeded = @ \cup {1}]
                ELSE [ui EXCEPT !.mcnpSteps[1].status = "error"],
                "run")
    /\ UiOnly

\* generateWholeBodyDoseMap up to the await
generateWholeBodyDoseMap ==
    /\ ~StepButtonDisabled(2)
    /\ ui.pending["dosemap"] < MaxPending
    /\ ui' = StartStep(2, "dosemap")
    /\ UiOnly

\* success: response.data.success; otherwise the throw or the rejected request
DoseMapReturns(success) ==
    /\ ui.pending["dosemap"] > 0
    /\ ui' = EndStep(
                IF success
                THEN [ui EXCEPT !.doseSlices = WholebodyColormap, !.hasDoseData = TRUE,
                                !.mcnpSteps[2].status = "completed",
                                !.succeeded = @ \cup {2}]
                ELSE [ui EXCEPT !.mcnpSteps[2].status = "error"],
                "dosemap")
    /\ UiOnly

\* handleDoseUpload (also called by handleDoseDrop) up to the await
HandleDoseUpload ==
    /\ ui.pending["process-npy"] < MaxPending
    /\ ui' = Send([ui EXCEPT !.loading = TRUE], "process-npy")
    /\ UiOnly

DoseUploadReturns(success) ==
    /\ ui.pending["process-npy"] > 0
    /\ ui' = Receive(
                IF success
                THEN [ui EXCEPT !.doseSlices = RenderColormap, !.hasDoseData = TRUE,
                                !.loading = FALSE]
                ELSE [ui EXCEPT !.loading = FALSE],
                "process-npy")
    /\ UiOnly

\* handleOrganUpload and removeOrgan
HandleOrganUpload(n) ==
    /\ ui' = [ui EXCEPT !.organFiles = n]
    /\ UiOnly

canGenerateDVH == ui.organFiles > 0 /\ ui.hasDoseData

\* generateDVH up to the await, behind :disabled="!canGenerateDVH || loading"
GenerateDVH ==
    /\ canGenerateDVH /\ ~ui.loading
    /\ ui.pending["dvh"] < MaxPending
    /\ ui' = Send([ui EXCEPT !.loading = TRUE], "dvh")
    /\ UiOnly

DvhReturns(ok) ==
    /\ ui.pending["dvh"] > 0
    /\ ui' = Receive([ui EXCEPT !.loading = FALSE], "dvh")
    /\ UiOnly

HandlePatientCtUpload ==
    /\ ui' = [ui EXCEPT !.patientCtFile = TRUE]
    /\ UiOnly

canRunRiskAssessment == ui.patientCtFile

\* runRiskAssessment up to the first await, behind
\* :disabled="!canRunRiskAssessment || loading"
RunRiskAssessment ==
    /\ canRunRiskAssessment /\ ~ui.loading
    /\ ui.risk = "idle"
    /\ ui' = [ui EXCEPT !.loading = TRUE, !.risk = "awaiting"]
    /\ UiOnly

\* The requests and the first checkStatus, awaited inside the try block
RiskAwaited(outcome) ==
    /\ ui.risk = "awaiting"
    /\ ui' = CASE outcome = "completed" ->
                    [ui EXCEPT !.loading = FALSE, !.risk = "idle"]
               [] outcome = "error" ->
                    [ui EXCEPT !.loading = FALSE, !.risk = "idle"]
               [] OTHER -> [ui EXCEPT !.risk = "timer"]
    /\ UiOnly

\* checkStatus run by setTimeout: its throw is caught by nobody
RiskTimer(outcome) ==
    /\ ui.risk = "timer"
    /\ ui' = CASE outcome = "completed" ->
                    [ui EXCEPT !.loading = FALSE, !.risk = "idle"]
               [] OTHER -> [ui EXCEPT !.risk = "idle"]
    /\ UiOnly

(***************************************************************************)
(* The session files: the upload folders, the solver's input directory     *)
(* C:/i and C:/o/session_info.json, and the handlers that read and write   *)
(* them                                                                    *)
(***************************************************************************)
\* Requests served in one run of the session handlers
MaxSessRequests == 4

\* Most .inp files of the input directory
MaxInp == 2

\* No path, no file
None == 0

\* The locals of the request being served, and what the last one left
NoSessRequest ==
    [op |-> "none", pc |-> "idle", status |-> 0,
     given |-> None,        \* /process-npy: req.body.niiPath
     ref |-> None,          \* /process-npy: niiRefPath
     listing |-> <<>>,      \* /run-mcnp-computation: inputFiles as fs.readdir gave them
     sorted |-> <<>>,       \* /run-mcnp-computation: sortedInputFiles
     results |-> <<>>,      \* /run-mcnp-computation: results (the file of each entry)
     started |-> <<>>,      \* the solver runs started, in order
     active |-> {},         \* the solver runs in progress
     wrote |-> FALSE,       \* whether the request wrote session_info.json
     sessionBefore |-> None]

SessIdle ==
    sess = [uploads |-> <<>>,       \* the nii_<time> folders, oldest first
            sessionInfo |-> None,   \* ct_nii_path of session_info.json: an upload
            inp |-> {},             \* the numbers n of the files n.inp in C:/i
            n |-> 0,                \* requests begun
            req |-> NoSessRequest,
            refs |-> {}]            \* <<niiPath given, reference used>> of /process-npy

\* The handlers leave everything but the session files alone
SessOnly == UNCHANGED <<heatVars, renderVars, ui, dvh, build, pat, wb>>

\* A request arrives while none is being served
Arrives(op) ==
    /\ sess.req.pc = "idle"
    /\ sess.n < MaxSessRequests

\* POST /upload-nii as far as the session files go: niiStorage makes the folder of
\* an accepted file, uncompress writes the .nii into it or throws
UploadNiiFolder(accepted, uncompressed, sliced) ==
    /\ Arrives("upload-nii")
    /\ sess' = [sess EXCEPT
            !.n = @ + 1,
            !.uploads = IF accepted
                        THEN Append(@, [id |-> sess.n + 1, nii |-> uncompressed])
                        ELSE @,
            !.req = [NoSessRequest EXCEPT !.op = "upload-nii",
                        !.status = IF accepted /\ uncompressed /\ sliced
                                   THEN 200 ELSE 500]]
    /\ SessOnly

\* existingFiles.length + 1, in place of the largest number + 1
NextNumberByCount(inp) == Cardinality(inp) + 1

\* Math.max(...existingFiles) + 1, or 1
NextNumber(inp) ==
    IF inp = {} THEN 1 ELSE (CHOOSE m \in inp : \A k \in inp : k <= m) + 1

\* POST /build-wholebody-phantom: the script writes wholebody_mcnp.inp or not, and
\* the file is copied to C:/i under the next number
BuildWholebodyPhantom(niiGiven, built) ==
    /\ Arrives("build")
    /\ Cardinality(sess.inp) < MaxInp
    /\ sess' = [sess EXCEPT
            !.n = @ + 1,
            !.inp = IF niiGiven /\ built THEN @ \cup {NextNumber(@)} ELSE @,
            !.req = [NoSessRequest EXCEPT !.op = "build",
                        !.status = IF niiGiven /\ built THEN 200 ELSE 500]]
    /\ SessOnly

\* The orders fs.readdir may list a set of files in
Orders(S) ==
    { f \in [1..Cardinality(S) -> S] : \A i, j \in 1..Cardinality(S) : i # j => f[i] # f[j] }

RECURSIVE InsertByNumber(_, _)
InsertByNumber(x, s) ==
    IF s = <<>> THEN <<x>>
    ELSE IF x < Head(s) THEN <<x>> \o s
    ELSE <<Head(s)>> \o InsertByNumber(x, Tail(s))

\* inputFiles left in the order of the listing
SortInpNone(files) == files

\* inputFiles.sort((a, b) => numA - numB)
RECURSIVE SortByNumber(_)
SortByNumber(files) ==
    IF files = <<>> THEN <<>> ELSE InsertByNumber(Head(files), SortByNumber(Tail(files)))

\* POST /run-mcnp-computation up to the loop
BeginRunMcnp ==
    /\ Arrives("run")
    /\ \E listing \in Orders(sess.inp) :
          sess' = [sess EXCEPT
              !.n = @ + 1,
              !.req = IF listing = <<>>
                      THEN [NoSessRequest EXCEPT !.op = "run", !.status = 400,
                                !.sessionBefore = sess.sessionInfo]
                      ELSE [NoSessRequest EXCEPT !.op = "run", !.pc = "loop",
                                !.listing = listing, !.sorted = SortByNumber(listing),
                                !.sessionBefore = sess.sessionInfo]]
    /\ SessOnly

\* The loop taken for over before every file was run
LoopDoneEarly(q) == TRUE

\* for (const filePath of sortedInputFiles) has no file left
LoopDone(q) == Len(q.results) = Len(q.sorted)

\* for (const filePath of sortedInputFiles): execAsync(run_batch.py) is started
StartSolver ==
    /\ sess.req.pc = "loop"
    /\ Len(sess.req.results) < Len(sess.req.sorted)
    /\ LET file == sess.req.sorted[Len(sess.req.results) + 1] IN
          sess' = [sess EXCEPT !.req.pc = "solver",
                               !.req.started = Append(@, file),
                               !.req.active = @ \cup {file}]
    /\ SessOnly

\* The awaited run ends: results.push, or the rejection reaches the catch block
SolverEnds(ok) ==
    /\ sess.req.pc = "solver"
    /\ LET file == sess.req.sorted[Len(sess.req.results) + 1] IN
          sess' = IF ok
                  THEN [sess EXCEPT !.req.pc = "loop",
                                    !.req.results = Append(@, file),
                                    !.req.active = @ \ {file}]
                  ELSE [sess EXCEPT !.req.pc = "idle", !.req.status = 500,
                                    !.req.active = @ \ {file}]
    /\ SessOnly

\* niiFolders[0]: the nii_ folder of the latest mtime
LatestFolder(uploads) == uploads[Len(uploads)]

\* After the loop: session_info.json names the .nii of the latest upload folder, if
\* that folder holds one and the write succeeds; then res.json
SaveSession(writeOk) ==
    /\ sess.req.pc = "loop"
    /\ LoopDone(sess.req)
    /\ LET saves == /\ sess.uploads # <<>>
                    /\ LatestFolder(sess.uploads).nii
                    /\ writeOk
       IN sess' = [sess EXCEPT
              !.sessionInfo = IF saves THEN LatestFolder(sess.uploads).id ELSE @,
              !.req.wrote = saves,
              !.req.pc = "idle",
              !.req.status = 200]
    /\ SessOnly

\* The newest upload folder that holds a .nii
RECURSIVE LatestNii(_)
LatestNii(uploads) ==
    IF uploads = <<>> THEN None
    ELSE IF LatestFolder(uploads).nii THEN LatestFolder(uploads).id
    ELSE LatestNii(SubSeq(uploads, 1, Len(uploads) - 1))

\* niiRefPath of /process-npy: the request's niiPath, else ct_nii_path of
\* session_info.json, else the .nii of the newest upload folder holding one
niiRefPath(given, sessionInfo, uploads) ==
    IF given # None THEN given
    ELSE IF sessionInfo # None THEN sessionInfo
    ELSE LatestNii(uploads)

\* fs.existsSync(niiRefPath)
NiiExists(ref, uploads) == \E i \in 1..Len(uploads) : uploads[i].id = ref /\ uploads[i].nii

\* POST /process-npy as far as the session files go: the reference the dose file
\* is rendered against, or 400 when there is none; processDoseDataFile is handed
\* niiRefPath, reads none of the session files itself, and renders or throws
ProcessNpyReference(given, rendered) ==
    /\ Arrives("process-npy")
    /\ LET ref == niiRefPath(given, sess.sessionInfo, sess.uploads)
           found == ref # None /\ NiiExists(ref, sess.uploads)
       IN sess' = [sess EXCEPT
              !.n = @ + 1,
              !.refs = IF found THEN @ \cup {<<given, ref>>} ELSE @,
              !.req = [NoSessRequest EXCEPT !.op = "process-npy", !.given = given,
                          !.ref = IF found THEN ref ELSE None,
                          !.status = IF ~found THEN 400
                                     ELSE IF rendered THEN 200 ELSE 500]]
    /\ SessOnly

(***************************************************************************)
(* DVH: computeDVH of the DVH script and POST /generate-dvh                *)
(***************************************************************************)
\* Voxels of the dose grid, and the largest dose value (whole Gy)
MaxVoxels == 3
MaxDose == 1

Voxels == 1..MaxVoxels
Organs == {"tumor", "liver"}
Percentiles == 0..100

\* The dose values at the mask-positive voxels, in voxel order: V
RECURSIVE DoseValues(_, _, _)
DoseValues(dose, mask, k) ==
    IF k > MaxVoxels THEN <<>>
    ELSE (IF k \in mask THEN <<dose[k]>> ELSE <<>>) \o DoseValues(dose, mask, k + 1)

RECURSIVE Sum(_)
Sum(V) == IF V = <<>> THEN 0 ELSE Head(V) + Sum(Tail(V))

\* max(V), 0 for the degenerate organ
MaxOf(V) ==
    IF V = <<>> THEN 0 ELSE CHOOSE m \in {V[i] : i \in 1..Len(V)} : \A i \in 1..Len(V) : V[i] <= m

\* count(V >= x) and count(V > x)
CountAtLeast(V, x) == Cardinality({i \in 1..Len(V) : V[i] >= x})
CountAbove(V, x) == Cardinality({i \in 1..Len(V) : V[i] > x})

\* A quotient kept as numerator and denominator
Ratio(a, b) == [num |-> a, den |-> b]
Zero == Ratio(0, 1)
AtLeast(p, q) == p.num * q.den >= q.num * p.den
Same(p, q) == p.num * q.den = q.num * p.den

\* The percentage of V strictly above x
VxAbove(V, x) == IF V = <<>> THEN Zero ELSE Ratio(100 * CountAbove(V, x), Len(V))

\* Vx: the percentage of V with value >= x, 0 for the degenerate organ
Vx(V, x) == IF V = <<>> THEN Zero ELSE Ratio(100 * CountAtLeast(V, x), Len(V))

\* sorted(V), ascending
RECURSIVE Sorted(_)
Sorted(V) == IF V = <<>> THEN <<>> ELSE InsertByNumber(Head(V), Sorted(Tail(V)))

\* What an index outside sorted(V) yields: no dose value
OutOfRange == -1

\* The rank of Dx counted from the top: floor(x / 100 * n)
DxRankFromTop(x, n) == (x * n) \div 100

\* The rank of Dx: floor((100 - x) / 100 * n), 0-based into sorted(V)
DxRank(x, n) == ((100 - x) * n) \div 100

\* Dx: sorted(V)[floor((100 - x) / 100 * n)], ascending sort
Dx(V, x) ==
    IF V = <<>> THEN 0
    ELSE IF DxRank(x, Len(V)) \in 0..(Len(V) - 1)
         THEN Sorted(V)[DxRank(x, Len(V)) + 1]
         ELSE OutOfRange

\* The curve with the bins taken from the top down
CurveDescending(V) ==
    [b \in 1..(MaxOf(V) + 1) |->
        [doseBin |-> b - 1, volumePercentAbove |-> Vx(V, MaxOf(V) + 1 - b)]]

\* cumulativeCurve: over the dose bins 0..maxDose, 100 * count(V >= bin) / n
CumulativeCurve(V) ==
    [b \in 1..(MaxOf(V) + 1) |-> [doseBin |-> b - 1, volumePercentAbove |-> Vx(V, b - 1)]]

\* The DVHResult of one organ
DVHResult(organ, V) ==
    [organName |-> organ,
     flagged |-> V = <<>>,
     n |-> Len(V),
     V |-> V,
     meanDose |-> IF V = <<>> THEN Zero ELSE Ratio(Sum(V), Len(V)),
     maxDose |-> MaxOf(V),
     dVolumeMetrics |-> [x \in Percentiles |-> Dx(V, x)],
     vDoseMetrics |-> [x \in 0..MaxDose |-> Vx(V, x)],
     cumulativeCurve |-> CumulativeCurve(V)]

\* computeDVH(doseVolume, masks): one DVHResult per organ mask
computeDVH(dose, masks) ==
    [o \in DOMAIN masks |-> DVHResult(o, DoseValues(dose, masks[o], 1))]

NoStats == [o \in {} |-> Zero]

NoDvhRequest == [pc |-> "idle", organs |-> {}, status |-> 0, response |-> [success |-> FALSE]]

DvhIdle ==
    dvh = [dose |-> [k \in Voxels |-> 0],
           masks |-> [o \in Organs |-> {}],
           result |-> NoStats,      \* what the script computed
           image |-> FALSE,         \* dvh/dvh.png exists
           req |-> NoDvhRequest]

DvhOnly == UNCHANGED <<heatVars, renderVars, ui, sess, build, pat, wb>>

\* res.status(500).json({success: false, ...}) from the catch block
DvhFails(d) == [d EXCEPT !.req.pc = "done", !.req.status = 500]

\* POST /generate-dvh up to the decompression: the two paths of the body and the
\* uploaded masks are checked
BeginGenerateDvh(pathsGiven, organs) ==
    /\ dvh.req.pc = "idle"
    /\ dvh' = IF pathsGiven /\ organs # {}
              THEN [dvh EXCEPT !.req.pc = "decompress", !.req.organs = organs]
              ELSE DvhFails([dvh EXCEPT !.req.organs = organs])
    /\ DvhOnly

\* for (const file of req.files): decompressNiiFile
DecompressMasks(ok) ==
    /\ dvh.req.pc = "decompress"
    /\ dvh' = IF ok THEN [dvh EXCEPT !.req.pc = "script"] ELSE DvhFails(dvh)
    /\ DvhOnly

\* execAsync(generate_dvh.py): the script computes the DVH of the submitted masks
\* and draws dvh.png
RunDvhScript(ok, drawn) ==
    /\ dvh.req.pc = "script"
    /\ dvh' = IF ok
              THEN [dvh EXCEPT
                      !.req.pc = "answer",
                      !.result = computeDVH(dvh.dose,
                                    [o \in dvh.req.organs |-> dvh.masks[o]]),
                      !.image = @ \/ drawn]
              ELSE DvhFails(dvh)
    /\ DvhOnly

\* The check of dvh.png, then res.json({success, message, dvhPlotPaths})
AnswerDvh ==
    /\ dvh.req.pc = "answer"
    /\ dvh' = IF dvh.image
              THEN [dvh EXCEPT !.req.pc = "done", !.req.status = 200,
                       !.req.response = [success |-> TRUE, dvhPlotPaths |-> "/dvh/dvh.png"]]
              ELSE DvhFails(dvh)
    /\ DvhOnly

\* response.data.stats || null, as generateDVH stores it in dvhStats
dvhStats(response) == IF "stats" \in DOMAIN response THEN response.stats ELSE NoStats

(***************************************************************************)
(* POST /build-wholebody-phantom, requests in flight together: the output  *)
(* folder wholebody_phantom they share and the decks they copy to C:/i     *)
(***************************************************************************)
\* Requests in flight together
MaxBuilds == 2

Builders == 1..MaxBuilds

\* ".inp" as UTF-16 code units
InpExt == <<46, 105, 110, 112>>

\* f.endsWith(ext)
EndsWith(f, ext) ==
    Len(f) >= Len(ext) /\ SubSeq(f, Len(f) - Len(ext) + 1, Len(f)) = ext

\* f.endsWith('.inp') && /^\d+\.inp$/.test(f)
IsNumberedInp(f) ==
    /\ EndsWith(f, InpExt)
    /\ Len(f) > Len(InpExt)
    /\ \A i \in 1..(Len(f) - Len(InpExt)) : f[i] \in 48..57

\* parseInt(f.replace('.inp', ''))
InpNumber(f) == ParseDigits(SubSeq(f, 1, Len(f) - Len(InpExt)), 0)

\* The numbers of the numbered decks among the names of a listing
existingFiles(names) == {InpNumber(f) : f \in {g \in names : IsNumberedInp(g)}}

\* `${nextNumber}.inp`
targetFileName(nextNumber) == Digits(nextNumber, 1) \o InpExt

\* The files C:/i may hold before the first build: "1.inp", "02.inp", "a1.inp"
ExistingNames == {<<49>> \o InpExt, <<48, 50>> \o InpExt, <<97, 49>> \o InpExt}

\* A file somebody else put there
PlacedFile == [by |-> 0, complete |-> TRUE]

\* wholebody_phantom/wholebody_mcnp.inp before any script has run
NoDeck == [exists |-> FALSE, by |-> 0, complete |-> FALSE]

NoBuild == [pc |-> "idle", status |-> 0, mcnpFileName |-> <<>>]

NoInputFiles == [f \in {} |-> PlacedFile]

BuildIdle ==
    build = [dir |-> NoInputFiles,   \* C:/i: file name -> whose deck it holds
             deck |-> NoDeck,        \* wholebody_phantom/wholebody_mcnp.inp
             req |-> [r \in Builders |-> NoBuild],
             copies |-> <<>>]        \* the copies made, in order

BuildOnly == UNCHANGED <<heatVars, renderVars, ui, sess, dvh, pat, wb>>

\* The handler up to execAsync: without niiPath it throws, else the script starts
BeginBuild(r, niiGiven) ==
    /\ build.req[r].pc = "idle"
    /\ build' = [build EXCEPT !.req[r] =
            IF niiGiven THEN [@ EXCEPT !.pc = "script"]
            ELSE [@ EXCEPT !.pc = "done", !.status = 500]]
    /\ BuildOnly

\* The script of r opens wholebody_mcnp.inp in the shared folder and begins to write
ScriptWrites(r) ==
    /\ build.req[r].pc = "script"
    /\ build' = [build EXCEPT
            !.req[r].pc = "writing",
            !.deck = [exists |-> TRUE, by |-> r, complete |-> FALSE]]
    /\ BuildOnly

\* The script of r exits: with the deck written out (left whole only if no other
\* script is writing the same file), or with an error that rejects execAsync
ScriptEnds(r, ok, whole) ==
    /\ build.req[r].pc \in {"script", "writing"}
    /\ ok => build.req[r].pc = "writing"
    /\ ~whole => ok /\ \E q \in Builders \ {r} : build.req[q].pc = "writing"
    /\ build' = [build EXCEPT
            !.req[r] = IF ok THEN [@ EXCEPT !.pc = "exited"]
                       ELSE [@ EXCEPT !.pc = "done", !.status = 500],
            !.deck = IF ok THEN [exists |-> TRUE, by |-> r, complete |-> whole] ELSE @]
    /\ BuildOnly

\* The handler after execAsync, in one turn: the deck is looked for, numbered
\* and copied into C:/i
CopyDeck(r) ==
    /\ build.req[r].pc = "exited"
    /\ IF ~build.deck.exists
       THEN build' = [build EXCEPT !.req[r] = [@ EXCEPT !.pc = "done", !.status = 500]]
       ELSE LET nextNumber == NextNumber(existingFiles(DOMAIN build.dir))
                target == targetFileName(nextNumber)
            IN build' = [build EXCEPT
                  !.dir = [f \in DOMAIN build.dir \cup {target} |->
                              IF f = target
                              THEN [by |-> build.deck.by, complete |-> build.deck.complete]
                              ELSE build.dir[f]],
                  !.req[r] = [@ EXCEPT !.pc = "done", !.status = 200,
                                       !.mcnpFileName = target],
                  !.copies = Append(@, [r |-> r, held |-> DOMAIN build.dir,
                                        nextNumber |-> nextNumber, name |-> target,
                                        by |-> build.deck.by,
                                        complete |-> build.deck.complete])]
    /\ BuildOnly

(***************************************************************************)
(* CT uploads in flight together: niiStorage's nii_<time> folders and the  *)
(* sessions of POST /api/wholebody/upload-patient-ct                       *)
(***************************************************************************)
\* Milliseconds the clock advances through
MaxClock == 2

\* Uploads in flight together
MaxUploads == 2

Uploaders == 1..MaxUploads

\* No folder, no session
Unset == -1

NoUpload ==
    [pc |-> "idle", status |-> 0,
     hasFile |-> FALSE,
     uploadFolder |-> Unset,    \* req.uploadFolder: the time in nii_<time>
     sessionId |-> Unset]       \* the time in session_<time>

PatIdle ==
    pat = [now |-> 0,                  \* Date.now()
           req |-> [r \in Uploaders |-> NoUpload],
           stored |-> <<>>,            \* the files multer stored: [r, folder], in order
           patientInfo |-> <<>>]       \* the patient_info.json written: [r, session]

PatOnly == UNCHANGED <<heatVars, renderVars, ui, sess, dvh, build, wb>>

\* A millisecond passes
Tick ==
    /\ pat.now < MaxClock
    /\ pat' = [pat EXCEPT !.now = @ + 1]
    /\ PatOnly

\* uploadNii.single('ctFile'): fileFilter refuses a file that is not .nii.gz;
\* niiStorage makes nii_<Date.now()> for an accepted one and multer stores the
\* file there under its original name
StoreCtFile(r, hasFile, accepted) ==
    /\ pat.req[r].pc = "idle"
    /\ accepted => hasFile
    /\ pat' = [pat EXCEPT
            !.req[r] = IF hasFile /\ ~accepted
                       THEN [@ EXCEPT !.pc = "done", !.status = 500]
                       ELSE [@ EXCEPT !.pc = "handler", !.hasFile = hasFile,
                                !.uploadFolder = IF hasFile THEN pat.now ELSE Unset],
            !.stored = IF accepted THEN Append(@, [r |-> r, folder |-> pat.now]) ELSE @]
    /\ PatOnly

\* The handler up to its await: 400 without the patient's parameters; else the
\* session directory session_<Date.now()> is made and, without a CT file,
\* patient_info.json is written in the same turn
CreateSession(r, valid) ==
    /\ pat.req[r].pc = "handler"
    /\ pat' = [pat EXCEPT
            !.req[r] = IF ~valid THEN [@ EXCEPT !.pc = "done", !.status = 400]
                       ELSE IF pat.req[r].hasFile
                       THEN [@ EXCEPT !.pc = "uncompress", !.sessionId = pat.now]
                       ELSE [@ EXCEPT !.pc = "done", !.status = 200, !.sessionId = pat.now],
            !.patientInfo = IF valid /\ ~pat.req[r].hasFile
                            THEN Append(@, [r |-> r, session |-> pat.now]) ELSE @]
    /\ PatOnly

\* compressing.gzip.uncompress returns: patient_info.json is written into the
\* session directory, over the file that is there; or the handler answers 500
SavePatientInfo(r, ok) ==
    /\ pat.req[r].pc = "uncompress"
    /\ pat' = [pat EXCEPT
            !.req[r] = [@ EXCEPT !.pc = "done", !.status = IF ok THEN 200 ELSE 500],
            !.patientInfo = IF ok THEN Append(@, [r |-> r, session |-> pat.req[r].sessionId])
                            ELSE @]
    /\ PatOnly

(***************************************************************************)
(* POST /generate-wholebody-dose-map: the dose file and the reference      *)
(* image it looks up before it runs dose_to_png.py                         *)
(***************************************************************************)
\* Latest modification time of a file of dose_results
MaxMtime == 2

\* ".npy", ".nii" and ".gz" as UTF-16 code units
NpyExt == <<46, 110, 112, 121>>

NiiExt == <<46, 110, 105, 105>>

GzExt == <<46, 103, 122>>

\* The files dose_results may hold: "a.npy", "b.npy", "a.png"
DoseResultNames == {<<97>> \o NpyExt, <<98>> \o NpyExt, <<97>> \o PngExt}

\* The files dosepng may hold: "c.npy", "d.npy", "c.png"
DosePngNames == {<<99>> \o NpyExt, <<100>> \o NpyExt, <<99>> \o PngExt}

\* The files an upload folder may hold: "ct.nii", "ct.nii.gz"
UploadNames == {<<99, 116>> \o NiiExt, <<99, 116>> \o NiiExt \o GzExt}

\* No path: null
NoPath == <<>>

\* wholebody_phantom/fused_phantom.nii.gz
FusedPhantomPath ==
    <<"wholebody_phantom",
      <<102, 117, 115, 101, 100, 95, 112, 104, 97, 110, 116, 111, 109>> \o NiiExt \o GzExt>>

\* The CT a session_info.json may record
RecordedCtPath == <<"nii_0", <<99, 116>> \o NiiExt>>

\* axialImagePath.split('/') of the paths a request may carry: none,
\* "/uploads", "/uploads/nii_1/axial/000.png"
AxialPaths == {<<>>, <<"", "uploads">>, <<"", "uploads", "nii_1", "axial", "000.png">>}

NoTimes == [f \in {} |-> 0]

NoUploads == [d \in {} |-> {}]

NoSessionInfo == [exists |-> FALSE, readable |-> FALSE, ct_nii_path |-> NoPath, onDisk |-> FALSE]

NoCommand == <<>>

NoWholebody ==
    [pc |-> "idle", status |-> 0,
     axial |-> <<>>,            \* axialImagePath.split('/')
     doseNpyPath |-> NoPath,
     refNiiPath |-> NoPath,
     command |-> NoCommand]     \* the dose file and the reference dose_to_png.py got

WbIdle ==
    wb = [results |-> [exists |-> FALSE, mtime |-> NoTimes],  \* dose_results: file -> mtime
          dosePng |-> [exists |-> FALSE, files |-> {}],       \* dosepng
          fused |-> FALSE,              \* whether fused_phantom.nii.gz exists
          session |-> NoSessionInfo,    \* C:/o/session_info.json
          uploads |-> NoUploads,        \* upload folder -> its files
          req |-> NoWholebody]

WbOnly == UNCHANGED <<heatVars, renderVars, ui, sess, dvh, build, pat>>

IsNpy(f) == EndsWith(f, NpyExt)

IsNii(f) == EndsWith(f, NiiExt)

\* The sort left out: the files as fs.readdirSync listed them
SortByTimeNone(files, mtime) == files

\* s with x put before the first file that is not newer than x
RECURSIVE InsertByTime(_, _, _)
InsertByTime(x, s, mtime) ==
    IF s = <<>> THEN <<x>>
    ELSE IF mtime[Head(s)] <= mtime[x] THEN <<x>> \o s
    ELSE <<Head(s)>> \o InsertByTime(x, Tail(s), mtime)

\* doseFiles.map(...).sort((a, b) => b.time - a.time): newest first
RECURSIVE SortNewestFirst(_, _)
SortNewestFirst(files, mtime) ==
    IF files = <<>> THEN <<>>
    ELSE InsertByTime(Head(files), SortNewestFirst(Tail(files), mtime), mtime)

\* Step 1: the newest .npy of dose_results, else the first .npy of dosepng's listing
doseNpyPath(results, resultsListing, dosePng, pngListing) ==
    LET inResults == IF results.exists THEN SelectSeq(resultsListing, IsNpy) ELSE <<>>
        inDosePng == IF dosePng.exists THEN SelectSeq(pngListing, IsNpy) ELSE <<>>
    IN IF inResults # <<>>
       THEN <<"dose_results", SortNewestFirst(inResults, results.mtime)[1]>>
       ELSE IF inDosePng # <<>> THEN <<"dosepng", inDosePng[1]>>
       ELSE NoPath

\* Whether session_info.json gives a CT: it exists, it parses, it records a
\* path and the path exists
SessionGivesCt(session) ==
    /\ session.exists
    /\ session.readable
    /\ session.ct_nii_path # NoPath
    /\ session.onDisk

\* Method 3: the first .nii of the folder uploads/<pathParts[2]>, if
\* axialImagePath was given and the folder exists
UploadedCt(axial, uploads, listing) ==
    IF axial # <<>> /\ Len(axial) >= 3 /\ axial[3] \in DOMAIN uploads
          /\ SelectSeq(listing, IsNii) # <<>>
    THEN <<axial[3], SelectSeq(listing, IsNii)[1]>>
    ELSE NoPath

\* Step 2 with methods 1 and 2 exchanged: the session's CT before the phantom
refNiiPathSessionFirst(fused, session, axial, uploads, listing) ==
    IF SessionGivesCt(session) THEN session.ct_nii_path
    ELSE IF fused THEN FusedPhantomPath
    ELSE UploadedCt(axial, uploads, listing)

\* Step 2: the fused phantom, else the CT of session_info.json, else the CT of
\* the upload folder of axialImagePath
refNiiPath(fused, session, axial, uploads, listing) ==
    IF fused THEN FusedPhantomPath
    ELSE IF SessionGivesCt(session) THEN session.ct_nii_path
    ELSE UploadedCt(axial, uploads, listing)

\* fs.existsSync(path) for the paths a reference can be
RefExists(w, path) ==
    IF path = NoPath THEN FALSE
    ELSE IF path = FusedPhantomPath THEN w.fused
    ELSE IF path = w.session.ct_nii_path THEN w.session.onDisk
    ELSE path[1] \in DOMAIN w.uploads /\ path[2] \in w.uploads[path[1]]

\* The files of the upload folder axialImagePath names
UploadedTo(axial, uploads) ==
    IF Len(axial) >= 3 /\ axial[3] \in DOMAIN uploads THEN uploads[axial[3]] ELSE {}

\* The handler up to execAsync, in one turn: the dose file is looked up (none:
\* it throws), then the reference (none: it throws), then dose_to_png.py is
\* started on the two
LookUpWholebody(axial, resultsListing, pngListing, niiListing) ==
    /\ wb.req.pc = "idle"
    /\ LET dose == doseNpyPath(wb.results, resultsListing, wb.dosePng, pngListing)
           ref == IF dose = NoPath THEN NoPath
                  ELSE refNiiPath(wb.fused, wb.session, axial, wb.uploads, niiListing)
           found == dose # NoPath /\ ref # NoPath /\ RefExists(wb, ref)
       IN wb' = [wb EXCEPT !.req =
              [pc |-> IF found THEN "script" ELSE "done",
               status |-> IF found THEN 0 ELSE 500,
               axial |-> axial,
               doseNpyPath |-> dose,
               refNiiPath |-> ref,
               command |-> IF found THEN <<dose, ref>> ELSE NoCommand]]
    /\ WbOnly

\* dose_to_png.py exits: the slices are listed and returned, or the handler
\* answers 500
DoseToPngEnds(ok) ==
    /\ wb.req.pc = "script"
    /\ wb' = [wb EXCEPT !.req.pc = "done", !.req.status = IF ok THEN 200 ELSE 500]
    /\ WbOnly

OtherIdle == UiIdle /\ SessIdle /\ DvhIdle /\ BuildIdle /\ PatIdle /\ WbIdle

(***************************************************************************)
(* Specifications                                                          *)
(***************************************************************************)
\* One request at a time, in the order of their numbers
Turn(r) == \A q \in Reqs : ~InFlight(q) /\ (q < r => rq[q].pc = "done")

HeatIdle ==
    /\ bitmap = [f \in Frames |-> SliceImage]
    /\ source = bitmap
    /\ mapped = {}

Init == RenderIdle /\ HeatIdle /\ OtherIdle

\* A POST /process-npy or /generate-wholebody-dose-map arrives
BeginDoseRender(r) ==
    \/ \E hasFile, found, there \in BOOLEAN, name \in NpyNames :
          BeginProcessNpy(r, hasFile, name, found, there)
    \/ \E doseFound, refFound \in BOOLEAN : BeginWholebody(r, doseFound, refFound)

\* A POST /upload-nii or /generate-dose-map arrives
BeginOther(r) ==
    \/ \E accepted \in BOOLEAN : BeginUploadNii(r, accepted)
    \/ \E given \in BOOLEAN, q \in Reqs : BeginDoseMap(r, given, q)

Next ==
    \E r \in Reqs :
        \/ Turn(r) /\ BeginDoseRender(r)
        \/ Turn(r) /\ BeginOther(r)
        \/ ProcessNpyStep(r, Shapes(MaxSlices))
        \/ WholebodyStep(r, Shapes(MaxSlices))
        \/ UploadNiiStep(r, Shapes(MaxSlices))
        \/ DoseMapStep(r)

Spec == Init /\ [][Next]_vars

NextConc ==
    \E r \in Reqs :
        \/ BeginDoseRender(r)
        \/ ProcessNpyStep(r, Shapes(MaxConcSlices))
        \/ WholebodyStep(r, Shapes(MaxConcSlices))

SpecConc == Init /\ [][NextConc]_vars

(***************************************************************************)
(* The heat-map specification: images of bounded size, one call per frame  *)
(***************************************************************************)
\* Red values the multi-pixel images draw from
RedSamples == {0, 128, 255}

\* A pixel that is not gray (an already recoloured one)
Tinted == [r |-> 128, g |-> 0, b |-> 0, a |-> 255]

SampleImages ==
    UNION {
        { [width |-> wh[1], height |-> wh[2], data |-> d] :
            d \in [Positions(wh[1], wh[2]) -> {Gray(v) : v \in RedSamples} \cup {Tinted}] } :
        wh \in {wh2 \in (1..MaxPixels) \X (1..MaxPixels) : wh2[1] * wh2[2] <= MaxPixels} }

\* One-pixel images over the whole channel range
RangeImages ==
    { [width |-> 1, height |-> 1, data |-> [p \in Positions(1, 1) |-> Gray(v)]] :
        v \in 0..ChannelMax }

InitHeat ==
    /\ bitmap \in [Frames -> RangeImages \cup SampleImages]
    /\ source = bitmap
    /\ mapped = {}
    /\ RenderIdle
    /\ OtherIdle

\* const heatmapImage = await generateHeatmapImage(image)
GenerateHeatmap(f) ==
    /\ f \notin mapped
    /\ ~HeatmapThrows(bitmap[f])
    /\ bitmap' = [bitmap EXCEPT ![f] = generateHeatmapImage(bitmap[f])]
    /\ mapped' = mapped \cup {f}
    /\ UNCHANGED <<source, renderVars, otherVars>>

NextHeat == \E f \in Frames : GenerateHeatmap(f)

SpecHeat == InitHeat /\ [][NextHeat]_vars

(***************************************************************************)
(* The frontend specification: the user's events and the responses, in any *)
(* order the component allows                                              *)
(***************************************************************************)
NextUi ==
    \/ HandleNiiUpload
    \/ \E ok \in BOOLEAN : NiiUploadReturns(ok)
    \/ buildWholeBodyPhantom
    \/ \E ok \in BOOLEAN : BuildReturns(ok)
    \/ runMcnpCalculation
    \/ \E ok \in BOOLEAN : RunReturns(ok)
    \/ generateWholeBodyDoseMap
    \/ \E success \in BOOLEAN : DoseMapReturns(success)
    \/ HandleDoseUpload
    \/ \E success \in BOOLEAN : DoseUploadReturns(success)
    \/ \E n \in 0..1 : HandleOrganUpload(n)
    \/ GenerateDVH
    \/ \E ok \in BOOLEAN : DvhReturns(ok)
    \/ HandlePatientCtUpload
    \/ RunRiskAssessment
    \/ \E outcome \in {"completed", "error", "pending"} : RiskAwaited(outcome)
    \/ \E outcome \in {"completed", "error"} : RiskTimer(outcome)

SpecUi == Init /\ [][NextUi]_vars

(***************************************************************************)
(* The session specification: requests on the session files, one at a time *)
(***************************************************************************)
NextSession ==
    \/ \E accepted, uncompressed, sliced \in BOOLEAN :
          UploadNiiFolder(accepted, uncompressed, sliced)
    \/ \E niiGiven, built \in BOOLEAN : BuildWholebodyPhantom(niiGiven, built)
    \/ BeginRunMcnp
    \/ StartSolver
    \/ \E ok \in BOOLEAN : SolverEnds(ok)
    \/ \E writeOk \in BOOLEAN : SaveSession(writeOk)
    \/ \E given \in {None, 1}, rendered \in BOOLEAN : ProcessNpyReference(given, rendered)

SpecSession == Init /\ [][NextSession]_vars

(***************************************************************************)
(* The DVH specification: a dose grid and two organ masks, one request     *)
(***************************************************************************)
InitDvh ==
    /\ RenderIdle /\ HeatIdle /\ UiIdle /\ SessIdle /\ BuildIdle /\ PatIdle /\ WbIdle
    /\ \E dose \in [Voxels -> 0..MaxDose], masks \in [Organs -> SUBSET Voxels] :
          dvh = [dose |-> dose, masks |-> masks, result |-> NoStats,
                 image |-> FALSE, req |-> NoDvhRequest]

NextDvh ==
    \/ \E pathsGiven \in BOOLEAN, organs \in SUBSET Organs :
          BeginGenerateDvh(pathsGiven, organs)
    \/ \E ok \in BOOLEAN : DecompressMasks(ok)
    \/ \E ok, drawn \in BOOLEAN : RunDvhScript(ok, drawn)
    \/ AnswerDvh

SpecDvh == InitDvh /\ [][NextDvh]_vars

(***************************************************************************)
(* The build specification: C:/i as it was found, requests in flight       *)
(* together                                                                *)
(***************************************************************************)
InitBuild ==
    /\ RenderIdle /\ HeatIdle /\ UiIdle /\ SessIdle /\ DvhIdle /\ PatIdle /\ WbIdle
    /\ \E held \in SUBSET ExistingNames :
          build = [dir |-> [f \in held |-> PlacedFile], deck |-> NoDeck,
                   req |-> [r \in Builders |-> NoBuild], copies |-> <<>>]

NextBuild ==
    \/ \E r \in Builders, niiGiven \in BOOLEAN : BeginBuild(r, niiGiven)
    \/ \E r \in Builders : ScriptWrites(r)
    \/ \E r \in Builders, ok, whole \in BOOLEAN : ScriptEnds(r, ok, whole)
    \/ \E r \in Builders : CopyDeck(r)

SpecBuild == InitBuild /\ [][NextBuild]_vars

(***************************************************************************)
(* The upload specification: CT uploads in flight together, and the clock  *)
(***************************************************************************)
NextUpload ==
    \/ Tick
    \/ \E r \in Uploaders, hasFile, accepted \in BOOLEAN : StoreCtFile(r, hasFile, accepted)
    \/ \E r \in Uploaders, valid \in BOOLEAN : CreateSession(r, valid)
    \/ \E r \in Uploaders, ok \in BOOLEAN : SavePatientInfo(r, ok)

SpecUpload == Init /\ [][NextUpload]_vars

(***************************************************************************)
(* The lookup specification: the folders as the request finds them         *)
(***************************************************************************)
DoseResultsFolders ==
    {[exists |-> FALSE, mtime |-> NoTimes]} \cup
    {[exists |-> TRUE, mtime |-> m] :
        m \in UNION {[S -> 1..MaxMtime] : S \in SUBSET DoseResultNames}}

DosePngFolders ==
    {[exists |-> FALSE, files |-> {}]} \cup
    {[exists |-> TRUE, files |-> S] : S \in SUBSET DosePngNames}

SessionInfos ==
    {NoSessionInfo,
     [exists |-> TRUE, readable |-> FALSE, ct_nii_path |-> NoPath, onDisk |-> FALSE],
     [exists |-> TRUE, readable |-> TRUE, ct_nii_path |-> NoPath, onDisk |-> FALSE],
     [exists |-> TRUE, readable |-> TRUE, ct_nii_path |-> RecordedCtPath, onDisk |-> FALSE],
     [exists |-> TRUE, readable |-> TRUE, ct_nii_path |-> RecordedCtPath, onDisk |-> TRUE]}

UploadFolders == {NoUploads} \cup {[d \in {"nii_1"} |-> S] : S \in SUBSET UploadNames}

InitLookup ==
    /\ RenderIdle /\ HeatIdle /\ UiIdle /\ SessIdle /\ DvhIdle /\ BuildIdle /\ PatIdle
    /\ \E results \in DoseResultsFolders, dosePng \in DosePngFolders, fused \in BOOLEAN,
          session \in SessionInfos, uploads \in UploadFolders :
          wb = [results |-> results, dosePng |-> dosePng, fused |-> fused,
                session |-> session, uploads |-> uploads, req |-> NoWholebody]

NextLookup ==
    \/ \E axial \in AxialPaths :
       \E resultsListing \in Listings(DOMAIN wb.results.mtime),
          pngListing \in Listings(wb.dosePng.files),
          niiListing \in Listings(UploadedTo(axial, wb.uploads)) :
          LookUpWholebody(axial, resultsListing, pngListing, niiListing)
    \/ \E ok \in BOOLEAN : DoseToPngEnds(ok)

SpecLookup == InitLookup /\ [][NextLookup]_vars

(***************************************************************************)
(* Properties                                                              *)
(***************************************************************************)
SliceIndex(file) == ParseDigits(file, 0)

\* The file name a URL or path ends with
FileOf(url) == url[Len(url)]

\* The names of the files of a view folder (none when the folder is missing)
NamesIn(folder) == IF folder.exists THEN DOMAIN folder.files ELSE {}

\* Request r has been answered and no later request has begun
Fresh(r) == rq[r].pc = "done" /\ \A q \in Reqs : q > r => rq[q].pc = "idle"

\* A list of URLs or paths in strictly ascending code-unit order of file name
Ascending(urls) == \A i, j \in 1..Len(urls) : i < j => StrLess(FileOf(urls[i]), FileOf(urls[j]))

\* The URLs list every name of the set once
ListsExactly(urls, names) ==
    /\ Len(urls) = Cardinality(names)
    /\ {FileOf(urls[i]) : i \in 1..Len(urls)} = names

\* The names are the zero-padded names of the slices 0..n-1
PaddedRun(names) == names = {SliceName(k) : k \in 0..(Cardinality(names) - 1)}

SortedListing(r, v) ==
    LET urls == resp[r].slices[v]
        names == NamesIn(dirs[rq[r].out][v])
    IN  /\ ListsExactly(urls, names)
        /\ Ascending(urls)
        /\ \A i \in 1..Len(urls) :
              urls[i] = IF rq[r].op = "upload-nii" THEN UploadUrl(r, v, FileOf(urls[i]))
                        ELSE WholebodyUrl(v, FileOf(urls[i]))
        /\ PaddedRun(names) => \A i \in 1..Len(urls) : SliceIndex(FileOf(urls[i])) = i - 1

\* C1: for each view, the URL list /upload-nii and /generate-wholebody-dose-map
\* return is the view folder's file names in ascending lexical order, and for
\* zero-padded names of equal width entry i of the list is slice i.
C1_SortedSliceUrls ==
    \A r \in Reqs :
        (Fresh(r) /\ resp[r].status = 200 /\ rq[r].op \in {"upload-nii", "wholebody"})
            => \A v \in ViewSet : SortedListing(r, v)

\* C1 witness: both handlers have answered with a view of two slices
C1_Witness ==
    \E r, q \in Reqs :
        /\ rq[q].op = "upload-nii" /\ resp[q].status = 200 /\ Len(resp[q].slices["axial"]) = 2
        /\ Fresh(r) /\ rq[r].op = "wholebody" /\ resp[r].status = 200
        /\ Len(resp[r].slices["coronal"]) = 2

\* C2: for each view, the image paths processDoseDataFile returned (forwarded
\* by /process-npy as doseImages) are in ascending slice-index order, whatever
\* order the directory listing had.
C2_DoseImagesInIndexOrder ==
    \A r \in Reqs :
        (resp[r].status = 200 /\ rq[r].op = "process-npy")
            => \A v \in ViewSet :
                 \A i, j \in 1..Len(resp[r].slices[v]) :
                    i < j => SliceIndex(FileOf(resp[r].slices[v][i]))
                                < SliceIndex(FileOf(resp[r].slices[v][j]))

\* Every slice image request r returns was produced by r's own script run and,
\* for /process-npy, recoloured once, by r
OwnSlices(r) ==
    \A v \in ViewSet :
        \A i \in 1..Len(resp[r].slices[v]) :
            LET folder == dirs[rq[r].out][v]
                file == FileOf(resp[r].slices[v][i])
            IN  /\ file \in NamesIn(folder)
                /\ folder.files[file].by = r
                /\ folder.files[file].heatBy = IF rq[r].op = "process-npy" THEN <<r>> ELSE <<>>

\* C3: concurrent dose-render requests need no locking: when a request answers
\* while the others are still in flight or have not begun, every slice image it
\* returns was produced and recoloured by that request alone.
C3_ConcurrentRendersIsolated ==
    [][\A r \in Reqs :
          (/\ resp[r].status = 0
           /\ resp'[r].status = 200
           /\ \A q \in Reqs \ {r} : rq[q].pc # "done")
              => OwnSlices(r)']_vars

\* The slices the response of request r names
Reported(r) ==
    UNION {{<<v, FileOf(resp[r].slices[v][i])>> : i \in 1..Len(resp[r].slices[v])} : v \in ViewSet}
    \cup {<<"axial", FileOf(resp[r].composite[i])>> : i \in 1..Len(resp[r].composite)}

\* C4: when a slice fails or is skipped after other slices succeeded, the
\* operation does not report full success and its outcome names the slices that
\* were rendered (processDoseDataFile's loop, /generate-dose-map's loop).
C4_PartialRenderReported ==
    \A r \in Reqs :
        (/\ rq[r].pc = "done"
         /\ rq[r].op \in {"process-npy", "dose-map"}
         /\ missed[r]
         /\ pass[r] # {})
            => ~resp[r].success /\ Reported(r) = pass[r]

\* C5: a processDoseDataFile call that fails leaves every slice image of the
\* output directory as it was before its recolouring pass began.
C5_FailedCallLeavesSlices ==
    \A r \in Reqs :
        (Fresh(r) /\ rq[r].op = "process-npy" /\ resp[r].status = 500)
            => dirs[rq[r].out] = before[r]

\* The slicing script of request r ran on an empty volume
RenderedEmpty(r) ==
    /\ rq[r].op \in {"process-npy", "wholebody"}
    /\ rq[r].ran
    /\ \A v \in ViewSet : rq[r].shape[v] = 0

\* No view folder of request r's output directory holds a file
NoSliceFile(r) == \A v \in ViewSet : NamesIn(dirs[rq[r].out][v]) = {}

C7_ShadeIndexInTable ==
    \A f \in Frames :
        \A p \in DOMAIN source[f].data :
            source[f].data[p].r \in 0..255 =>
                /\ ShadeIndex(source[f].data[p].r) \in 0..(nshades - 1)
                /\ ShadeAt(ShadeIndex(source[f].data[p].r)) # Undefined

\* C7 witness: a pixel of value 255 has been recoloured, from the last table index
C7_Witness ==
    \E f \in mapped :
        \E p \in DOMAIN source[f].data :
            source[f].data[p].r = 255 /\ ShadeIndex(255) = 255

\* The pixel colour written for table entry k (0-based)
Shade(k) == [r |-> colorMap[k + 1][1], g |-> colorMap[k + 1][2], b |-> colorMap[k + 1][3], a |-> 255]

\* C8: generateHeatmapImage gives pixel value 0 the first entry of the 'hot'
\* table and pixel value 255 its last entry.
C8_EndsOfScale ==
    \A f \in mapped :
        \A p \in DOMAIN source[f].data :
            /\ source[f].data[p].r = 0 => bitmap[f].data[p] = Shade(0)
            /\ source[f].data[p].r = 255 => bitmap[f].data[p] = Shade(Len(colorMap) - 1)

\* C8 witness: a recoloured image held both a pixel of value 0 and one of value 255
C8_Witness ==
    \E f \in mapped :
        \E p, q \in DOMAIN source[f].data :
            /\ source[f].data[p].r = 0 /\ source[f].data[q].r = 255
            /\ bitmap[f].data[p] # bitmap[f].data[q]

\* C9: the colour generateHeatmapImage writes depends only on the pixel's input
\* value: equal values get equal colours in every frame and at every position.
C9_FrameIndependent ==
    \A f, g \in mapped :
        \A p \in DOMAIN source[f].data, q \in DOMAIN source[g].data :
            source[f].data[p].r = source[g].data[q].r => bitmap[f].data[p] = bitmap[g].data[q]

\* C9 witness: two recoloured frames of different brightest value share a pixel value
C9_Witness ==
    \E f, g \in mapped :
        \E p \in DOMAIN source[f].data, q \in DOMAIN source[g].data :
            /\ source[f].data[p] = Gray(128) /\ source[g].data[q] = Tinted
            /\ MaxRed(source[f]) = 255 /\ MaxRed(source[g]) = 128
            /\ bitmap[f].data[p] = bitmap[g].data[q]

\* C10: the recolouring pass writes every image back to the path it was read
\* from: each view folder holds the same file names during and after the pass as
\* before it, and the result lists exactly one path per file of each view folder.
C10_PassKeepsFileNames ==
    \A r \in Reqs :
        (rq[r].op = "process-npy" /\ rq[r].pc \in {"readdir", "read", "write", "return"})
            => /\ \A v \in ViewSet :
                    /\ dirs[rq[r].out][v].exists = before[r][v].exists
                    /\ DOMAIN dirs[rq[r].out][v].files = DOMAIN before[r][v].files
               /\ rq[r].pc = "return" =>
                    \A v \in ViewSet :
                        /\ ListsExactly(rq[r].result[v], NamesIn(dirs[rq[r].out][v]))
                        /\ \A i \in 1..Len(rq[r].result[v]) :
                              rq[r].result[v][i] = <<rq[r].out, v, FileOf(rq[r].result[v][i])>>

\* C10 witness: a pass has returned after writing back two slices of one view
C10_Witness ==
    \E r \in Reqs :
        /\ rq[r].op = "process-npy" /\ rq[r].pc = "return"
        /\ Len(rq[r].result["sagittal"]) = 2
        /\ \A i \in 1..2 : <<"sagittal", FileOf(rq[r].result["sagittal"][i])>> \in pass[r]

(***************************************************************************)
(* Properties of the frontend, the session files and the DVH               *)
(***************************************************************************)
\* C11: whenever dose slices are displayed, the colour scale of the colorbar
\* (doseColormap) is the scale those slices were rendered with, whether
\* handleDoseUpload or generateWholeBodyDoseMap loaded them.
C11_ColorbarMatchesSlices ==
    ui.hasDoseData => ui.doseColormap = ui.doseSlices

\* C12: the result /generate-dvh delivers holds an entry for every organ mask
\* submitted, and an organ whose mask selects no voxel is there, flagged, with
\* all statistics 0.
C12_EveryOrganInDvhResult ==
    dvh.req.status = 200 =>
        \A o \in dvh.req.organs :
            /\ o \in DOMAIN dvhStats(dvh.req.response)
            /\ dvh.masks[o] = {} =>
                  /\ dvhStats(dvh.req.response)[o].flagged
                  /\ dvhStats(dvh.req.response)[o].maxDose = 0

\* C13: along the cumulative curve of every organ, volumePercentAbove does not
\* increase as the dose bin increases.
C13_CurveNonIncreasing ==
    \A o \in DOMAIN dvh.result :
        LET curve == dvh.result[o].cumulativeCurve IN
        \A i, j \in DOMAIN curve :
            curve[i].doseBin <= curve[j].doseBin =>
                AtLeast(curve[i].volumePercentAbove, curve[j].volumePercentAbove)

\* C13 witness: a computed curve that falls from one bin to a later one
C13_Witness ==
    \E o \in DOMAIN dvh.result :
        LET curve == dvh.result[o].cumulativeCurve IN
        \E i, j \in DOMAIN curve :
            /\ curve[i].doseBin < curve[j].doseBin
            /\ ~AtLeast(curve[j].volumePercentAbove, curve[i].volumePercentAbove)

\* C14 as stated: for any organ the volume-at-dose metric at threshold 0 is 100
\* percent.
C14_VolumeAtZeroIsFull ==
    \A o \in DOMAIN dvh.result :
        Same(dvh.result[o].vDoseMetrics[0], Ratio(100, 1))

\* C14: for an organ with at least one mask-positive voxel the volume-at-dose
\* metric at threshold 0 is 100 percent; for the degenerate organ it is 0, as
\* all its statistics are.
C14_VolumeAtZeroOfNonEmpty ==
    \A o \in DOMAIN dvh.result :
        IF dvh.result[o].n > 0
        THEN Same(dvh.result[o].vDoseMetrics[0], Ratio(100, 1))
        ELSE Same(dvh.result[o].vDoseMetrics[0], Zero)

\* C14 witness: the metrics of an organ that has a voxel of dose 0 and one above
C14_Witness ==
    \E o \in DOMAIN dvh.result :
        /\ dvh.result[o].n > 1
        /\ \E i, j \in 1..dvh.result[o].n :
              dvh.result[o].V[i] = 0 /\ dvh.result[o].V[j] > 0

\* Dx of the organ's result is a value of V with at least x percent of V at or above it
DxHolds(res, x) ==
    /\ res.dVolumeMetrics[x] # OutOfRange
    /\ \E i \in 1..res.n : res.V[i] = res.dVolumeMetrics[x]
    /\ 100 * CountAtLeast(res.V, res.dVolumeMetrics[x]) >= x * res.n

\* C15 as stated: for every non-empty V and every percentile x in 0..100, Dx is
\* an element of V and at least x percent of V is at or above it.
C15_DxWithinValues ==
    \A o \in DOMAIN dvh.result :
        dvh.result[o].n > 0 => \A x \in 0..100 : DxHolds(dvh.result[o], x)

\* C15: for every non-empty V and every percentile x in 1..100, Dx is an element
\* of V (the index floor((100 - x) / 100 * n) is within 0..n-1) and at least x
\* percent of V is at or above it.
C15_DxWithinValuesFromOne ==
    \A o \in DOMAIN dvh.result :
        dvh.result[o].n > 0 => \A x \in 1..100 : DxHolds(dvh.result[o], x)

\* C15 witness: an organ of several voxels whose D50 lies above its D100
C15_Witness ==
    \E o \in DOMAIN dvh.result :
        /\ dvh.result[o].n > 1
        /\ dvh.result[o].dVolumeMetrics[50] > dvh.result[o].dVolumeMetrics[100]
        /\ dvh.result[o].dVolumeMetrics[100] # OutOfRange

\* C16: two /process-npy requests with the same request inputs are rendered
\* against the same reference volume, whatever was served between them.
C16_SameInputsSameReference ==
    \A a, b \in sess.refs : a[1] = b[1] => a[2] = b[2]

\* C17: runMcnpCalculation sends its request only after a buildWholeBodyPhantom
\* has succeeded, generateWholeBodyDoseMap only after a runMcnpCalculation has
\* succeeded, and buildWholeBodyPhantom sends none while niiPath is empty.
C17_StepsInOrder ==
    [][ /\ ui'.pending["run"] > ui.pending["run"] => 0 \in ui.succeeded
        /\ ui'.pending["dosemap"] > ui.pending["dosemap"] => 1 \in ui.succeeded
        /\ ui'.pending["build"] > ui.pending["build"] => ui.niiPath # "" ]_vars

\* C17 witness: the third step has been started, after the first two succeeded
C17_Witness ==
    /\ ui.pending["dosemap"] > 0
    /\ ui.mcnpSteps[2].status = "active"
    /\ {0, 1} \subseteq ui.succeeded

\* C18: at most one step of mcnpSteps is 'active', and a step is 'active' only
\* while loading is true.
C18_OneActiveStepWhileLoading ==
    /\ Cardinality({i \in StepIds : ui.mcnpSteps[i].status = "active"}) <= 1
    /\ \A i \in StepIds : ui.mcnpSteps[i].status = "active" => ui.loading

C20_FailedRunStopsRequest ==
    LET q == sess.req IN
    /\ q.op = "run" /\ q.status = 500 =>
          /\ Len(q.started) = Len(q.results) + 1
          /\ ~q.wrote /\ sess.sessionInfo = q.sessionBefore
    /\ q.wrote => Len(q.results) = Len(q.sorted) /\ q.active = {}
    /\ q.op = "run" /\ ~q.wrote => sess.sessionInfo = q.sessionBefore
    /\ q.op = "run" /\ q.pc = "idle" /\ sess.inp = {} => q.status = 400
    /\ q.op = "run" /\ q.status = 400 =>
          /\ sess.inp = {}
          /\ q.started = <<>> /\ ~q.wrote /\ sess.sessionInfo = q.sessionBefore

\* C20 witness: of two files the first one's run failed and the second never started
C20_Witness ==
    /\ sess.req.op = "run" /\ sess.req.status = 500
    /\ Len(sess.req.sorted) = 2
    /\ sess.req.started = <<sess.req.sorted[1]>>

(***************************************************************************)
(* Properties of the builds, the uploads and the whole-body dose map       *)
(***************************************************************************)
\* C21: every copy of a build goes to N.inp where N is 1 when C:/i held no
\* purely numeric .inp file and one more than the largest such number
\* otherwise; the name was not held by C:/i before, and the numbers of
\* successive copies strictly increase
C21_NextNumberedDeck ==
    \A i \in 1..Len(build.copies) :
        LET c == build.copies[i]
            numbers == {InpNumber(f) : f \in {g \in c.held : IsNumberedInp(g)}}
        IN /\ \/ numbers = {} /\ c.nextNumber = 1
              \/ /\ c.nextNumber - 1 \in numbers
                 /\ \A k \in numbers : k < c.nextNumber
           /\ c.name = targetFileName(c.nextNumber)
           /\ c.name \notin c.held
           /\ \A j \in 1..(i - 1) : build.copies[j].nextNumber < c.nextNumber

\* Two builds have copied their decks into a folder that held a numbered deck
\* with a leading zero and a deck whose name is not purely numeric
C21_Witness ==
    /\ Len(build.copies) = 2
    /\ build.copies[1].held = {<<48, 50>> \o InpExt, <<97, 49>> \o InpExt}
    /\ build.copies[1].nextNumber = 3
    /\ build.copies[2].nextNumber = 4

\* C22: the deck a build copies is the complete deck its own script run wrote,
\* and two builds in flight together copy to different file names
C22_OwnDeckOwnName ==
    \A i \in 1..Len(build.copies) :
        /\ build.copies[i].by = build.copies[i].r
        /\ build.copies[i].complete
        /\ \A j \in 1..Len(build.copies) :
              i # j => build.copies[i].name # build.copies[j].name

\* C23: two upload-patient-ct requests never get the same sessionId, so neither
\* writes its patient_info.json over the other's, and two CT uploads never
\* share a nii_<time> folder
C23_OwnSessionOwnFolder ==
    /\ \A i, j \in 1..Len(pat.patientInfo) :
          i # j => pat.patientInfo[i].session # pat.patientInfo[j].session
    /\ \A i, j \in 1..Len(pat.stored) :
          i # j => pat.stored[i].folder # pat.stored[j].folder

\* C24: once the dose file is found, the reference is the fused phantom if it
\* exists; otherwise the ct_nii_path of session_info.json if that file and that
\* path exist; otherwise a .nii of the upload folder axialImagePath names; and
\* if there is none the request ends with 500 and dose_to_png.py is not run
C24_ReferenceByPriority ==
    (wb.req.pc # "idle" /\ wb.req.doseNpyPath # NoPath) =>
        LET s == wb.session
            recorded == s.exists /\ s.readable /\ s.ct_nii_path # NoPath /\ s.onDisk
            a == wb.req.axial
            uploaded == IF Len(a) >= 3 /\ a[3] \in DOMAIN wb.uploads
                        THEN {<<a[3], f>> : f \in {g \in wb.uploads[a[3]] : EndsWith(g, NiiExt)}}
                        ELSE {}
            none == ~wb.fused /\ ~recorded /\ uploaded = {}
        IN /\ wb.fused => wb.req.refNiiPath = FusedPhantomPath
           /\ ~wb.fused /\ recorded => wb.req.refNiiPath = s.ct_nii_path
           /\ ~wb.fused /\ ~recorded /\ uploaded # {} => wb.req.refNiiPath \in uploaded
           /\ none => wb.req.status = 500 /\ wb.req.command = NoCommand
           /\ ~none => wb.req.command = <<wb.req.doseNpyPath, wb.req.refNiiPath>>

\* Without the phantom the script was started on the CT of session_info.json
\* although the upload folder of axialImagePath holds a .nii as well
C24_Witness ==
    /\ wb.req.command # NoCommand
    /\ ~wb.fused
    /\ wb.req.refNiiPath = RecordedCtPath
    /\ Len(wb.req.axial) >= 3
    /\ "nii_1" \in DOMAIN wb.uploads
    /\ <<99, 116>> \o NiiExt \in wb.uploads["nii_1"]

\* C25: the dose file is a most recently modified .npy of dose_results whenever
\* that folder holds one; a .npy of dosepng only when it holds none; and with
\* none in either the request ends with 500 and dose_to_png.py is not run
C25_NewestDoseFile ==
    wb.req.pc # "idle" =>
        LET inResults == IF wb.results.exists
                         THEN {f \in DOMAIN wb.results.mtime : EndsWith(f, NpyExt)} ELSE {}
            inDosePng == IF wb.dosePng.exists
                         THEN {f \in wb.dosePng.files : EndsWith(f, NpyExt)} ELSE {}
        IN /\ inResults # {} =>
                \E f \in inResults :
                    /\ wb.req.doseNpyPath = <<"dose_results", f>>
                    /\ \A g \in inResults : wb.results.mtime[g] <= wb.results.mtime[f]
           /\ inResults = {} /\ inDosePng # {} =>
                \E f \in inDosePng : wb.req.doseNpyPath = <<"dosepng", f>>
           /\ inResults = {} /\ inDosePng = {} =>
                wb.req.status = 500 /\ wb.req.command = NoCommand

\* dose_to_png.py was started on the newer of two .npy files of dose_results
\* while dosepng holds a .npy as well
C25_Witness ==
    /\ wb.req.command # NoCommand
    /\ <<97>> \o NpyExt \in DOMAIN wb.results.mtime
    /\ <<98>> \o NpyExt \in DOMAIN wb.results.mtime
    /\ wb.results.mtime[<<97>> \o NpyExt] < wb.results.mtime[<<98>> \o NpyExt]
    /\ wb.req.doseNpyPath = <<"dose_results", <<98>> \o NpyExt>>
    /\ <<99>> \o NpyExt \in wb.dosePng.files

====
